---- MODULE Spec2Model ----
(***************************************************************************)
(* A model of src/code.py: the text normaliser preprocess_text, the        *)
(* classifier of analyze_sentiment, the batch runner process_batch_file    *)
(* and the interactive loop of main.                                       *)
(*                                                                         *)
(* A text is a sequence of one-character strings.  Scores are integers in  *)
(* units of 0.0001 (so 0.05 is 500 and 1.0 is 10000).                      *)
(***************************************************************************)
EXTENDS Integers, Sequences, FiniteSets, TLC

VARIABLES
    pc,            \* position of the program: see the three specifications
    typed,         \* main: the line input() returned, before strip()
    user_input,    \* main: user_input (the stripped line last read)
    branch,        \* main: the branch of the loop body taken for user_input
    cleaned_text,  \* SpecNorm: the result of preprocess_text(user_input)
    scores,        \* SpecScore: the scores VADER and TextBlob return
    analysis,      \* SpecScore: the result of analyze_sentiment
    stdout,        \* what the last step printed, in order
    ret,           \* return value of the last process_batch_file call
    output         \* the file output.txt: Absent, or the chunks written to it

vars == <<pc, typed, user_input, branch, cleaned_text, scores, analysis,
          stdout, ret, output>>

----------------------------------------------------------------------------
(* Bound of the model.                                                     *)

\* longest text handed to preprocess_text in SpecNorm
MaxLen == 4

----------------------------------------------------------------------------
(* Characters and the str methods the program calls.                       *)

UpperLetters == <<"A","B","C","D","E","F","G","H","I","J","K","L","M",
                  "N","O","P","Q","R","S","T","U","V","W","X","Y","Z">>
LowerLetters == <<"a","b","c","d","e","f","g","h","i","j","k","l","m",
                  "n","o","p","q","r","s","t","u","v","w","x","y","z">>
Digits == {"0","1","2","3","4","5","6","7","8","9"}

IsUpper(c) == \E i \in 1..26 : UpperLetters[i] = c
IsLower(c) == \E i \in 1..26 : LowerLetters[i] = c
IsDigit(c) == c \in Digits

\* str.isspace for the ASCII whitespace characters
IsSpace(c) == c \in {" ", "\t", "\n", "\r"}

\* the regex class \w: letters, digits and the underscore
IsWordChar(c) == IsUpper(c) \/ IsLower(c) \/ IsDigit(c) \/ c = "_"

LowerChar(c) ==
    IF IsUpper(c) THEN LowerLetters[CHOOSE i \in 1..26 : UpperLetters[i] = c] ELSE c

\* str.lower()
Lower(s) == [i \in 1..Len(s) |-> LowerChar(s[i])]

\* str.strip(): drop leading and trailing whitespace
Strip(s) ==
    LET keep == {i \in 1..Len(s) : ~IsSpace(s[i])}
    IN  IF keep = {} THEN <<>>
        ELSE LET lo == CHOOSE i \in keep : \A j \in keep : i <= j
                 hi == CHOOSE i \in keep : \A j \in keep : j <= i
             IN  SubSeq(s, lo, hi)

\* str.startswith(p)
StartsWith(s, p) == Len(s) >= Len(p) /\ SubSeq(s, 1, Len(p)) = p

\* str.split(' ', 1): cut at the first space, if there is one
SplitFirstSpace(s) ==
    LET sp == {i \in 1..Len(s) : s[i] = " "}
    IN  IF sp = {} THEN <<s>>
        ELSE LET k == CHOOSE i \in sp : \A j \in sp : i <= j
             IN  <<SubSeq(s, 1, k - 1), SubSeq(s, k + 1, Len(s))>>

\* re.sub(r'[^\w\s]', '', text): delete what is neither \w nor whitespace
RECURSIVE RemovePunct(_)
RemovePunct(s) ==
    IF s = <<>> THEN <<>>
    ELSE IF IsWordChar(Head(s)) \/ IsSpace(Head(s))
         THEN <<Head(s)>> \o RemovePunct(Tail(s))
         ELSE RemovePunct(Tail(s))

\* str.split(): the maximal runs of non-whitespace, in order
RECURSIVE SplitFrom(_, _)
SplitFrom(s, cur) ==
    IF s = <<>> THEN (IF cur = <<>> THEN <<>> ELSE <<cur>>)
    ELSE IF IsSpace(Head(s))
         THEN (IF cur = <<>> THEN <<>> ELSE <<cur>>) \o SplitFrom(Tail(s), <<>>)
         ELSE SplitFrom(Tail(s), Append(cur, Head(s)))

Split(s) == SplitFrom(s, <<>>)

\* ' '.join(words)
RECURSIVE Join(_)
Join(words) ==
    IF words = <<>> THEN <<>>
    ELSE IF Len(words) = 1 THEN words[1]
         ELSE words[1] \o <<" ">> \o Join(Tail(words))

----------------------------------------------------------------------------
(* preprocess_text and the lexical resources it loads.                     *)

\* stopwords.words('english'): the entries the model's texts can spell
stop_words ==
    { <<"a">>, <<"i">>, <<"s">>, <<"t">>, <<"a","s">>, <<"i","s">>,
      <<"t","h","e">>, <<"t","h","i","s">> }

\* the WordNet nouns the model's texts can spell
WordNetNouns == { <<"a","a">>, <<"c","a","t">>, <<"l","o","v","e">> }

\* WordNetLemmatizer.lemmatize(word): the shortest WordNet form among the
\* word itself and the word with its final s detached, else the word
lemmatize(word) ==
    IF Len(word) > 1 /\ word[Len(word)] = "s"
          /\ SubSeq(word, 1, Len(word) - 1) \in WordNetNouns
    THEN SubSeq(word, 1, Len(word) - 1)
    ELSE word

RemoveStopwords(words) == SelectSeq(words, LAMBDA w : w \notin stop_words)

Lemmatize(words) == [i \in 1..Len(words) |-> lemmatize(words[i])]

preprocess_text(text) ==
    Join(Lemmatize(RemoveStopwords(Split(RemovePunct(Lower(text))))))

----------------------------------------------------------------------------
(* analyze_sentiment.  The compound score and the subjectivity come from   *)
(* VADER and TextBlob; the model takes them as given and classifies them   *)
(* as the code does.  pos, neg and neu are passed through unread and are   *)
(* left out.                                                               *)

\* the compound score lies in [-1, 1]
CompoundMax == 10000
\* compound > 0.05
PosThreshold == 500
\* compound < -0.05
NegThreshold == -500
\* subjectivity > 0.5
SubjThreshold == 5000

\* the thresholds taken as inclusive
SentimentLabelInclusive(compound) ==
    IF compound >= PosThreshold THEN "Positive"
    ELSE IF compound <= NegThreshold THEN "Negative"
    ELSE "Neutral"

SentimentLabel(compound) ==
    IF compound > PosThreshold THEN "Positive"
    ELSE IF compound < NegThreshold THEN "Negative"
    ELSE "Neutral"

SubjLabel(subjectivity) ==
    IF subjectivity > SubjThreshold THEN "Subjective" ELSE "Objective"

\* text is the preprocessed text, s the scores the two libraries give for it
analyze_sentiment(text, s) ==
    [ label        |-> SentimentLabel(s.compound),
      compound     |-> s.compound,
      subjectivity |-> s.subjectivity,
      subj_label   |-> SubjLabel(s.subjectivity) ]

\* the format :.2f, in hundredths: the nearest hundredth of a score
Fmt2(x) ==
    IF x >= 0 THEN (x + 50) \div 100 ELSE 0 - ((50 - x) \div 100)

NoScores == [compound |-> 0, subjectivity |-> 0]
NoAnalysis == [label |-> "", compound |-> 0, subjectivity |-> 0, subj_label |-> ""]

----------------------------------------------------------------------------
(* The files of the working directory, and what the environment decides.   *)

\* the input files that exist, by path; no other path names a file
files ==
    ( <<"a">> :> <<"A","!","\n", " ","\n", "n","o">> ) @@
    ( <<"b">> :> <<"\n", "\t","c","a","t","s","\n">> ) @@
    ( <<"e">> :> <<>> )

\* os.path.isfile(file_path)
isfile(file_path) == file_path \in DOMAIN files

\* f.readlines(): the lines of a text, each with its line end
RECURSIVE ReadLinesFrom(_, _)
ReadLinesFrom(s, cur) ==
    IF s = <<>> THEN (IF cur = <<>> THEN <<>> ELSE <<cur>>)
    ELSE IF Head(s) = "\n"
         THEN <<Append(cur, "\n")>> \o ReadLinesFrom(Tail(s), <<>>)
         ELSE ReadLinesFrom(Tail(s), Append(cur, Head(s)))

ReadLines(s) == ReadLinesFrom(s, <<>>)

\* the scores the libraries may return for a text
ScoreChoices ==
    { [compound |-> -501, subjectivity |-> 5001],
      [compound |-> 500, subjectivity |-> 5000],
      [compound |-> 501, subjectivity |-> 5000] }

\* the call that raises during one run of process_batch_file, if any: the
\* read of the input, the processing of line `line`, the open of output.txt
\* or one of the two writes.  The first exception ends the try block, so at
\* most one call raises.
NoFault == [at |-> "none", line |-> 0]
Faults(n) ==
    {NoFault} \cup [at : {"read", "open", "write1", "write2"}, line : {0}]
              \cup [at : {"process"}, line : 1..n]

Msg(kind, arg) == [kind |-> kind, arg |-> arg]

\* "=" * 50 and "-" * 50
RuleWidth == 50
Rule(c) == [char |-> c, width |-> RuleWidth]

\* the first chunk written to output.txt
Header == [title |-> "Batch Sentiment Analysis Results", rule |-> Rule("=")]

Absent == [exists |-> FALSE, chunks |-> <<>>]
File(chunks) == [exists |-> TRUE, chunks |-> chunks]

\* a report left in output.txt by an earlier run of the program
PriorReport ==
    File(<< Header,
            << [n |-> 7, line |-> <<"o","l","d">>, label |-> "Neutral",
                compound |-> 0, subj_label |-> "Objective"] >> >>)

----------------------------------------------------------------------------
(* process_batch_file.                                                     *)

\* one formatted result
ResultLine(i, line, a) ==
    [n |-> i, line |-> line, label |-> a.label,
     compound |-> Fmt2(a.compound), subj_label |-> a.subj_label]

\* the loop numbering the results by their count, not by the line
RECURSIVE BatchLoopCounted(_, _, _, _)
BatchLoopCounted(lines, i, sc, fault) ==
    IF i > Len(lines) THEN [ok |-> TRUE, results |-> <<>>]
    ELSE LET line == Strip(lines[i])
         IN  IF line = <<>> THEN BatchLoopCounted(lines, i + 1, sc, fault)
             ELSE IF fault.at = "process" /\ fault.line = i
                  THEN [ok |-> FALSE, results |-> <<>>]
             ELSE LET a == analyze_sentiment(preprocess_text(line), sc[i])
                      k == Cardinality({j \in 1..i : Strip(lines[j]) # <<>>})
                      rest == BatchLoopCounted(lines, i + 1, sc, fault)
                  IN  [ok |-> rest.ok,
                       results |-> IF rest.ok
                                   THEN <<ResultLine(k, line, a)>> \o rest.results
                                   ELSE <<>>]

\* the for loop over enumerate(lines, 1), from line i on.  sc[i] is what the
\* libraries return for line i, fault the call that raises.
RECURSIVE BatchLoop(_, _, _, _)
BatchLoop(lines, i, sc, fault) ==
    IF i > Len(lines) THEN [ok |-> TRUE, results |-> <<>>]
    ELSE LET line == Strip(lines[i])
         IN  IF line = <<>> THEN BatchLoop(lines, i + 1, sc, fault)
             ELSE IF fault.at = "process" /\ fault.line = i THEN [ok |-> FALSE, results |-> <<>>]
             ELSE LET cleaned == preprocess_text(line)
                      a == analyze_sentiment(cleaned, sc[i])
                      rest == BatchLoop(lines, i + 1, sc, fault)
                  IN  [ok |-> rest.ok,
                       results |-> IF rest.ok
                                   THEN <<ResultLine(i, line, a)>> \o rest.results
                                   ELSE <<>>]

\* output.txt opened in append mode
WriteOutputAppend(out, results, fault) ==
    IF fault.at = "open"
    THEN [ret |-> "False", stdout |-> <<Msg("error_processing", "open")>>,
          output |-> out]
    ELSE IF fault.at = "write1"
    THEN [ret |-> "False", stdout |-> <<Msg("error_processing", "write")>>,
          output |-> File(out.chunks)]
    ELSE IF fault.at = "write2"
    THEN [ret |-> "False", stdout |-> <<Msg("error_processing", "write")>>,
          output |-> File(out.chunks \o <<Header>>)]
    ELSE [ret |-> "True", stdout |-> <<Msg("batch_complete", "output.txt")>>,
          output |-> File(out.chunks \o <<Header, results>>)]

\* the with block that writes output.txt, and the return that follows it
WriteOutput(out, results, fault) ==
    IF fault.at = "open"
    THEN [ret |-> "False", stdout |-> <<Msg("error_processing", "open")>>,
          output |-> out]
    ELSE IF fault.at = "write1"
    THEN [ret |-> "False", stdout |-> <<Msg("error_processing", "write")>>,
          output |-> File(<<>>)]
    ELSE IF fault.at = "write2"
    THEN [ret |-> "False", stdout |-> <<Msg("error_processing", "write")>>,
          output |-> File(<<Header>>)]
    ELSE [ret |-> "True", stdout |-> <<Msg("batch_complete", "output.txt")>>,
          output |-> File(<<Header, results>>)]

\* the try block with output.txt opened for writing before the input is read
BatchBodyOpenFirst(file_path, out, sc, fault) ==
    IF fault.at = "open"
    THEN [ret |-> "False", stdout |-> <<Msg("error_processing", "open")>>,
          output |-> out]
    ELSE IF fault.at = "read"
    THEN [ret |-> "False", stdout |-> <<Msg("error_processing", "read")>>,
          output |-> File(<<>>)]
    ELSE LET loop == BatchLoop(ReadLines(files[file_path]), 1, sc, fault)
         IN  IF ~loop.ok
             THEN [ret |-> "False",
                   stdout |-> <<Msg("error_processing", "process")>>,
                   output |-> File(<<>>)]
             ELSE WriteOutput(out, loop.results, fault)

\* the try block and its except clause.  out is output.txt before the call;
\* the environment decides the scores (sc) and the call that raises (fault).
BatchBody(file_path, out, sc, fault) ==
    IF fault.at = "read"
    THEN [ret |-> "False", stdout |-> <<Msg("error_processing", "read")>>,
          output |-> out]
    ELSE LET lines == ReadLines(files[file_path])
             loop == BatchLoop(lines, 1, sc, fault)
         IN  IF ~loop.ok
             THEN [ret |-> "False",
                   stdout |-> <<Msg("error_processing", "process")>>,
                   output |-> out]
             ELSE WriteOutput(out, loop.results, fault)

\* the isfile test made after output.txt is opened for writing
process_batch_file_late_test(file_path, out, sc, fault) ==
    IF ~isfile(file_path)
    THEN [ret |-> "False", stdout |-> <<Msg("not_found", file_path)>>,
          output |-> File(<<>>)]
    ELSE BatchBody(file_path, out, sc, fault)

process_batch_file(file_path, out, sc, fault) ==
    IF ~isfile(file_path)
    THEN [ret |-> "False", stdout |-> <<Msg("not_found", file_path)>>,
          output |-> out]
    ELSE BatchBody(file_path, out, sc, fault)

----------------------------------------------------------------------------
(* main: the interactive loop.  One action is one pass of the loop body:   *)
(* the prompt, the read, and the branch taken.  The locals cleaned_text    *)
(* and analysis of the text branch are dead once the pass has printed      *)
(* them: they are LET-bound here and show in stdout.                       *)

\* the lines a user may type at the prompt
TypedLines ==
    { <<"q","u","i","t">>,
      <<"Q","U","I","T"," ">>,
      <<" ","Q","u","i","t">>,
      <<"q","u","i","t"," ","n","o","w">>,
      <<"q","u","i","t","s">>,
      <<"b","a","t","c","h">>,
      <<"B","a","t","c","h"," "," ">>,
      <<"b","a","t","c","h"," ","a">>,
      <<"B","A","T","C","H"," ","b">>,
      <<"b","a","t","c","h"," ","e">>,
      <<"b","a","t","c","h"," ","m">>,
      <<"b","a","t","c","h"," "," ","a">>,
      <<"b","a","t","c","h","e","s">>,
      <<>>,
      <<" ","\t">>,
      <<"I"," ","l","o","v","e","_","i","t","!">>,
      <<"c","a","t","s">> }

quit == <<"q","u","i","t">>
batch_ == <<"b","a","t","c","h"," ">>

\* the comparison without lower()
IsQuitExact(u) == u = quit

\* user_input.lower() == 'quit'
IsQuit(u) == Lower(u) = quit

\* user_input.lower().startswith('batch ')
IsBatch(u) == StartsWith(Lower(u), batch_)

\* the loop left when the batch failed
AfterBatchStop(r) == IF r = "True" THEN "prompt" ELSE "exited"

\* where the loop goes after the batch branch: continue
AfterBatch(r) == "prompt"

\* what the text branch prints
Report(u, cleaned, a) ==
    << Msg("original", u), Msg("cleaned", cleaned), Msg("sentiment", a.label),
       Msg("compound", Fmt2(a.compound)), Msg("detailed", <<>>),
       Msg("subjectivity", <<a.subj_label, Fmt2(a.subjectivity)>>),
       Msg("rule", Rule("-")) >>

AtPrompt == pc = "prompt"

\* input() raises EOFError, which nothing catches
ReadEof ==
    /\ AtPrompt
    /\ pc' = "crashed"
    /\ branch' = "eof"
    /\ typed' = <<>>
    /\ user_input' = <<>>
    /\ stdout' = <<Msg("prompt", <<>>), Msg("traceback", "EOFError")>>
    /\ ret' = "none"
    /\ UNCHANGED <<cleaned_text, scores, analysis, output>>

ReadQuit ==
    /\ AtPrompt
    /\ \E line \in TypedLines :
        LET u == Strip(line)
        IN  /\ IsQuit(u)
            /\ typed' = line
            /\ user_input' = u
    /\ pc' = "exited"
    /\ branch' = "quit"
    /\ stdout' = <<Msg("prompt", <<>>), Msg("goodbye", <<>>)>>
    /\ ret' = "none"
    /\ UNCHANGED <<cleaned_text, scores, analysis, output>>

ReadBatch ==
    /\ AtPrompt
    /\ \E line \in TypedLines :
        LET u == Strip(line)
            parts == SplitFirstSpace(u)
        IN  /\ ~IsQuit(u)
            /\ IsBatch(u)
            /\ typed' = line
            /\ user_input' = u
            /\ IF Len(parts) < 2
               THEN /\ branch' = "usage"
                    /\ stdout' = <<Msg("prompt", <<>>), Msg("usage", <<>>)>>
                    /\ ret' = "none"
                    /\ pc' = "prompt"
                    /\ output' = output
               ELSE LET file_path == parts[2]
                        n == IF isfile(file_path)
                             THEN Len(ReadLines(files[file_path])) ELSE 0
                    IN  \E sc \in [1..n -> ScoreChoices], fault \in Faults(n) :
                          LET r == process_batch_file(file_path, output, sc, fault)
                          IN  /\ branch' = "batch"
                              /\ stdout' = <<Msg("prompt", <<>>)>> \o r.stdout
                                              \o <<Msg("rule", Rule("-"))>>
                              /\ ret' = r.ret
                              /\ output' = r.output
                              /\ pc' = AfterBatch(r.ret)
    /\ UNCHANGED <<cleaned_text, scores, analysis>>

ReadEmpty ==
    /\ AtPrompt
    /\ \E line \in TypedLines :
        LET u == Strip(line)
        IN  /\ ~IsQuit(u)
            /\ ~IsBatch(u)
            /\ u = <<>>
            /\ typed' = line
            /\ user_input' = u
    /\ pc' = "prompt"
    /\ branch' = "empty"
    /\ stdout' = <<Msg("prompt", <<>>), Msg("please_enter", <<>>)>>
    /\ ret' = "none"
    /\ UNCHANGED <<cleaned_text, scores, analysis, output>>

\* the text branch; raises is whether a library call raises, which nothing
\* catches here
ReadText ==
    /\ AtPrompt
    /\ \E line \in TypedLines, s \in ScoreChoices, raises \in BOOLEAN :
        LET u == Strip(line)
        IN  /\ ~IsQuit(u)
            /\ ~IsBatch(u)
            /\ u # <<>>
            /\ typed' = line
            /\ user_input' = u
            /\ IF raises
               THEN /\ pc' = "crashed"
                    /\ stdout' = <<Msg("prompt", <<>>), Msg("traceback", "Exception")>>
               ELSE LET cleaned == preprocess_text(u)
                        a == analyze_sentiment(cleaned, s)
                    IN  /\ pc' = "prompt"
                        /\ stdout' = <<Msg("prompt", <<>>)>> \o Report(u, cleaned, a)
    /\ branch' = "text"
    /\ ret' = "none"
    /\ UNCHANGED <<cleaned_text, scores, analysis, output>>

Init ==
    /\ pc = "prompt"
    /\ typed = <<>>
    /\ user_input = <<>>
    /\ branch = "start"
    /\ cleaned_text = <<>>
    /\ scores = NoScores
    /\ analysis = NoAnalysis
    /\ stdout = <<Msg("welcome", <<>>)>>
    /\ ret = "none"
    /\ output \in {Absent, PriorReport}

Next == ReadEof \/ ReadQuit \/ ReadBatch \/ ReadEmpty \/ ReadText

Spec == Init /\ [][Next]_vars

----------------------------------------------------------------------------
(* preprocess_text alone, on every text of at most MaxLen characters.      *)

NormAlphabet == {"A", "a", "s", "1", " ", "_", "!"}

NormTexts == UNION { [1..n -> NormAlphabet] : n \in 0..MaxLen }

InitNorm ==
    /\ pc = "norm"
    /\ typed = <<>>
    /\ user_input \in NormTexts
    /\ branch = "start"
    /\ cleaned_text = <<>>
    /\ scores = NoScores
    /\ analysis = NoAnalysis
    /\ stdout = <<>>
    /\ ret = "none"
    /\ output = Absent

Normalize ==
    /\ pc = "norm"
    /\ pc' = "normed"
    /\ cleaned_text' = preprocess_text(user_input)
    /\ UNCHANGED <<typed, user_input, branch, scores, analysis, stdout,
                   ret, output>>

NextNorm == Normalize

SpecNorm == InitNorm /\ [][NextNorm]_vars

----------------------------------------------------------------------------
(* analyze_sentiment alone, on every compound score of [-1, 1].            *)

InitScore ==
    /\ pc = "score"
    /\ typed = <<>>
    /\ user_input = <<>>
    /\ branch = "start"
    /\ cleaned_text = <<>>
    /\ scores \in [compound : (0 - CompoundMax)..CompoundMax,
                   subjectivity : {SubjThreshold, SubjThreshold + 1}]
    /\ analysis = NoAnalysis
    /\ stdout = <<>>
    /\ ret = "none"
    /\ output = Absent

Analyze ==
    /\ pc = "score"
    /\ pc' = "scored"
    /\ analysis' = analyze_sentiment(cleaned_text, scores)
    /\ UNCHANGED <<typed, user_input, branch, cleaned_text, scores,
                   stdout, ret, output>>

NextScore == Analyze

SpecScore == InitScore /\ [][NextScore]_vars

----------------------------------------------------------------------------
(* The properties.                                                         *)

\* the path of the batch command last read
BatchPath == SplitFirstSpace(user_input)[2]

Printed(kind) == \E i \in 1..Len(stdout) : stdout[i].kind = kind

PrintedArg(kind, arg) ==
    \E i \in 1..Len(stdout) : stdout[i].kind = kind /\ stdout[i].arg = arg

\* a line with a character that is not whitespace
NonBlank(l) == \E i \in 1..Len(l) : ~IsSpace(l[i])

NonBlankLines(lines) == {i \in 1..Len(lines) : NonBlank(lines[i])}

\* C1: after a batch that succeeded, the report holds exactly one entry for
\* each line of the file that is not blank, numbered by the line's 1-based
\* position in the file, and the entries are in the order of the file.
C1_OneEntryPerNonBlankLine ==
    (branch = "batch" /\ ret = "True") =>
        LET lines == ReadLines(files[BatchPath])
            r == output.chunks[2]
        IN  /\ {r[k].n : k \in 1..Len(r)} = NonBlankLines(lines)
            /\ \A k \in 1..(Len(r) - 1) : r[k].n < r[k + 1].n

\* a report with the entries 1 and 3 of a file whose line 2 is blank
C1_Witness ==
    /\ branch = "batch" /\ ret = "True" /\ BatchPath = <<"a">>
    /\ Len(output.chunks[2]) = 2
    /\ output.chunks[2][1].n = 1 /\ output.chunks[2][2].n = 3

\* C2: a batch command whose path names no file returns failure, prints an
\* error that holds the path, and leaves output.txt as it was.
C2_MissingFile ==
    [][ (branch' = "batch" /\ ~isfile(BatchPath'))
            => /\ ret' = "False"
               /\ PrintedArg("not_found", BatchPath)'
               /\ output' = output ]_vars

\* a missing file asked for when output.txt holds an earlier batch's report
C2_Witness ==
    /\ branch = "batch" /\ ~isfile(BatchPath) /\ ret = "False"
    /\ PrintedArg("not_found", <<"m">>)
    /\ output.exists /\ output # PriorReport

\* C3: a failure while the input is read or a line is processed leaves
\* output.txt as it was, and the call prints a message and returns failure.
C3_FailureBeforeWrite ==
    [][ (branch' = "batch"
            /\ \/ PrintedArg("error_processing", "read")'
               \/ PrintedArg("error_processing", "process")')
            => /\ output' = output
               /\ ret' = "False" ]_vars

\* the processing of a line failed while output.txt held a report
C3_Witness ==
    /\ branch = "batch" /\ ret = "False"
    /\ PrintedArg("error_processing", "process")
    /\ output.exists /\ Len(output.chunks) = 2

\* C4: the keyword batch with no path gets the usage message, no batch run
\* and no analysis, and the session prompts again.
C4_UsageOnBareBatch ==
    (branch \notin {"start", "eof"}
        /\ Lower(Strip(typed)) = <<"b","a","t","c","h">>)
        => /\ Printed("usage")
           /\ ~Printed("sentiment")
           /\ ret = "none"
           /\ pc = "prompt"

QuitAnyCase(u) ==
    /\ Len(u) = 4
    /\ u[1] \in {"q", "Q"} /\ u[2] \in {"u", "U"}
    /\ u[3] \in {"i", "I"} /\ u[4] \in {"t", "T"}

\* C5: a line that is quit in any letter case once trimmed ends the loop
\* with the farewell; no other line takes that branch; and nothing is read
\* or printed after the loop has ended.
C5_QuitEndsLoop ==
    /\ [](branch \notin {"start", "eof"} =>
            /\ QuitAnyCase(Strip(typed)) <=> branch = "quit"
            /\ branch = "quit" <=> pc = "exited"
            /\ pc = "exited" => Printed("goodbye"))
    /\ [][pc # "exited"]_vars

\* quit typed in mixed case behind a space
C5_Witness ==
    pc = "exited" /\ typed = <<" ","Q","u","i","t">> /\ Printed("goodbye")

\* C6: a batch run that fails prints its error and the session is back at
\* the prompt.
C6_FailedBatchKeepsSession ==
    (branch = "batch" /\ ret = "False")
        => /\ pc = "prompt"
           /\ Printed("not_found") \/ Printed("error_processing")

\* a write to output.txt failed and the session goes on
C6_Witness ==
    /\ branch = "batch" /\ ret = "False" /\ pc = "prompt"
    /\ PrintedArg("error_processing", "write")

\* C7: the session ends cleanly on quit and on end of input, and in no other
\* case.
C7_CleanExitOnEof ==
    /\ branch = "eof" => pc = "exited"
    /\ pc = "exited" => branch \in {"quit", "eof"}

\* C8: the label is Positive iff compound > 0.05, Negative iff
\* compound < -0.05 and Neutral otherwise.
C8_Thresholds ==
    pc = "scored" =>
        LET c == scores.compound
            l == analysis.label
        IN  /\ l \in {"Positive", "Negative", "Neutral"}
            /\ l = "Positive" <=> c > 500
            /\ l = "Negative" <=> c < -500
            /\ l = "Neutral" <=> (c >= -500 /\ c <= 500)

\* the compound score 0.05 itself, labelled Neutral
C8_Witness ==
    pc = "scored" /\ scores.compound = 500 /\ analysis.label = "Neutral"

\* C9: every character of preprocess_text's result is a lowercase letter, a
\* digit or a single space between two words.
C9_NoUpperNoPunct ==
    pc = "normed" =>
        \A i \in 1..Len(cleaned_text) :
            \/ IsLower(cleaned_text[i])
            \/ IsDigit(cleaned_text[i])
            \/ /\ cleaned_text[i] = " "
               /\ 1 < i /\ i < Len(cleaned_text)
               /\ cleaned_text[i - 1] # " " /\ cleaned_text[i + 1] # " "

\* C10: output.txt changes only in a batch step on an existing file whose
\* read and processing succeeded, and after a batch that succeeded it holds
\* the header and the entries of that batch's file, nothing else.
C10_OutputFrame ==
    /\ [][ output' # output
             => /\ branch' = "batch"
                /\ isfile(BatchPath')
                /\ ~PrintedArg("error_processing", "read")'
                /\ ~PrintedArg("error_processing", "process")' ]_vars
    /\ []((branch = "batch" /\ ret = "True") =>
            LET lines == ReadLines(files[BatchPath])
            IN  /\ output.exists
                /\ Len(output.chunks) = 2
                /\ output.chunks[1] = Header
                /\ Len(output.chunks[2]) = Cardinality(NonBlankLines(lines))
                /\ \A k \in 1..Len(output.chunks[2]) :
                      LET e == output.chunks[2][k]
                      IN  /\ e.n \in 1..Len(lines)
                          /\ e.line = Strip(lines[e.n]))

\* the batch of an empty file over an earlier report: the header alone
C10_Witness ==
    /\ branch = "batch" /\ ret = "True" /\ BatchPath = <<"e">>
    /\ output = File(<<Header, <<>>>>)

====
